---- MODULE Spec2Model ----
(***************************************************************************)
(* xanal: recovery of the key of a repeating-key XOR cipher.               *)
(*                                                                         *)
(* The module models the three pure entry points of the crate              *)
(*   decrypt              (src/src/lib.rs)                                 *)
(*   analyse_key_length   (src/src/kl_anal.rs)                             *)
(*   guess_key            (src/src/key_guess.rs)                           *)
(* as operators that compute what the Rust code computes, and applies      *)
(* them to inputs drawn from bounded sets.  Bytes are the integers 0..255, *)
(* slices are sequences (index i of the code is index i+1 here), a panic   *)
(* of the code is an explicit outcome.                                     *)
(***************************************************************************)
EXTENDS Integers, Sequences, FiniteSets, TLC

VARIABLES
    pc,          \* which entry point has run: "start", then the call's name
    data,        \* the ciphertext, the immutable input of every call
    key,         \* decrypt: the key argument
    output,      \* decrypt: the collected iterator (or its panic)
    max_length,  \* analyse_key_length: argument
    target_ic,   \* analyse_key_length: argument (an f32)
    ic_vals,     \* analyse_key_length: the local vector of scores
    kl_ret,      \* analyse_key_length: the returned usize
    method,      \* guess_key: the GuessMethod
    key_length,  \* guess_key: context.key_length
    result       \* guess_key: Result<Vec<ArrVec<u8>>, SimpleError> (or a panic)

vars == <<pc, data, key, output, max_length, target_ic, ic_vals, kl_ret,
          method, key_length, result>>

(***************************************************************************)
(* Bounds of the model.                                                    *)
(***************************************************************************)
MaxDecryptLen == 3   \* longest generated ciphertext given to decrypt
MaxDecryptKey == 2   \* longest generated key given to decrypt
MaxKLData == 6       \* longest ciphertext given to analyse_key_length
MaxMaxLength == 4    \* largest max_length given to analyse_key_length
MaxData == 4         \* longest ciphertext given to guess_key
MaxKeyLength == 2    \* largest context.key_length given to guess_key
MaxCrib == 2         \* longest crib
MaxSearch == 3       \* longest search target

\* value of a variable that the call in progress does not use
None == [none |-> TRUE]

(***************************************************************************)
(* Sequences over a set, by length.                                        *)
(***************************************************************************)
RECURSIVE SeqsOfLen(_, _)
SeqsOfLen(S, n) ==
    IF n = 0 THEN {<<>>}
    ELSE {Append(s, x) : s \in SeqsOfLen(S, n - 1), x \in S}

SeqsUpTo(S, n) == UNION {SeqsOfLen(S, k) : k \in 0..n}

(***************************************************************************)
(* u8 ^ u8: bitwise exclusive or of two bytes, bit by bit from the lowest. *)
(***************************************************************************)
RECURSIVE XorBits(_, _, _)
XorBits(a, b, n) ==
    IF n = 0 THEN 0
    ELSE (((a % 2) + (b % 2)) % 2) + 2 * XorBits(a \div 2, b \div 2, n - 1)

\* a mutated ^ : bitwise or
RECURSIVE OrBits(_, _, _)
OrBits(a, b, n) ==
    IF n = 0 THEN 0
    ELSE (IF (a % 2) + (b % 2) > 0 THEN 1 ELSE 0) + 2 * OrBits(a \div 2, b \div 2, n - 1)

XorAsOr(a, b) == OrBits(a, b, 8)

Xor(a, b) == XorBits(a, b, 8)

(***************************************************************************)
(* decrypt (lib.rs): data.iter().enumerate().map(|(i,&x)| x ^ key[i % key.len()]) *)
(* The iterator is lazy; consuming its first item with an empty key panics  *)
(* (remainder by zero).  The operators below give the collected iterator.   *)
(***************************************************************************)
decrypt_panics(d, k) == Len(k) = 0 /\ Len(d) > 0

\* a mutated decrypt: the key does not repeat, its last byte is reused
decrypt_no_cycle(d, k) ==
    [i \in 1..Len(d) |-> Xor(d[i], k[IF i <= Len(k) THEN i ELSE Len(k)])]

decrypt(d, k) ==
    [i \in 1..Len(d) |-> Xor(d[i], k[((i - 1) % Len(k)) + 1])]

Panic == [panic |-> TRUE, bytes |-> <<>>]
Bytes(s) == [panic |-> FALSE, bytes |-> s]

collect_decrypt(d, k) ==
    IF decrypt_panics(d, k) THEN Panic
    ELSE IF Len(d) = 0 THEN Bytes(<<>>)
    ELSE Bytes(decrypt(d, k))

(***************************************************************************)
(* Inputs of decrypt: generated byte strings, and the fixture of           *)
(* test_decrypt_1 (lib_test.rs).                                           *)
(***************************************************************************)
DecryptBytes == {0, 42, 97, 255}
DecryptKeyBytes == {98, 101, 255}

\* hex 2a00090a0d45110e0b16450f11450408421d04080309451207161146584c
FixtureData ==
    <<42, 0, 9, 10, 13, 69, 17, 14, 11, 22, 69, 15, 17, 69, 4, 8,
      66, 29, 4, 8, 3, 9, 69, 18, 7, 22, 17, 70, 88, 76>>

\* b"beef"
FixtureKey == <<98, 101, 101, 102>>

\* b"Hello this is an xanal test :)"
FixtureText ==
    <<72, 101, 108, 108, 111, 32, 116, 104, 105, 115, 32, 105, 115, 32, 97, 110,
      32, 120, 97, 110, 97, 108, 32, 116, 101, 115, 116, 32, 58, 41>>

DecryptInputs == SeqsUpTo(DecryptBytes, MaxDecryptLen) \cup {FixtureData}
DecryptKeys == SeqsUpTo(DecryptKeyBytes, MaxDecryptKey) \cup {FixtureKey}

(***************************************************************************)
(* f32 arithmetic.  A finite f32 is held as an integer count of units of   *)
(* 2^-28; NaN is a value of its own.  Every operation rounds its exact     *)
(* result to 24 significant bits, ties to even, as IEEE 754 single         *)
(* precision does.  The representation is exact for zero and for every     *)
(* f32 of magnitude from 2^-5 up to 4, and for the differences of such     *)
(* values; the scores of ciphertexts of up to 8 bytes lie in that range.   *)
(***************************************************************************)
F32Unit == 2 ^ 28

NaN == [nan |-> TRUE, v |-> 0]
F(v) == [nan |-> FALSE, v |-> v]

\* the number of low bits an integer of units loses when cut to 24 bits
RECURSIVE Shift(_)
Shift(q) == IF q < 2 ^ 24 THEN 0 ELSE 1 + Shift(q \div 2)

\* nearest f32 to the real q + rnum/rden units (q >= 0, 0 <= rnum < rden)
RoundToF32(q, rnum, rden) ==
    LET s    == Shift(q)
        m    == q \div (2 ^ s)
        rem  == q % (2 ^ s)
        half == IF s = 0 THEN 0 ELSE 2 ^ (s - 1)
        up   == IF s = 0
                THEN 2 * rnum > rden \/ (2 * rnum = rden /\ m % 2 = 1)
                ELSE \/ rem > half
                     \/ (rem = half /\ rnum > 0)
                     \/ (rem = half /\ rnum = 0 /\ m % 2 = 1)
    IN  (m + (IF up THEN 1 ELSE 0)) * (2 ^ s)

\* n more binary digits of rem/q after acc: <<quotient, remainder>>
RECURSIVE LongDiv(_, _, _, _)
LongDiv(rem, q, n, acc) ==
    IF n = 0 THEN <<acc, rem>>
    ELSE IF 2 * rem >= q THEN LongDiv(2 * rem - q, q, n - 1, 2 * acc + 1)
    ELSE LongDiv(2 * rem, q, n - 1, 2 * acc)

\* (p as f32) / (q as f32) for integers 0 <= p, 0 < q, both below 2^24
F32DivInts(p, q) ==
    LET d == LongDiv(p % q, q, 28, p \div q)
    IN  F(RoundToF32(d[1], d[2], q))

\* a / (n as f32) for an f32 a >= 0 and an integer n > 0
F32DivByInt(a, n) ==
    IF a.nan THEN NaN ELSE F(RoundToF32(a.v \div n, a.v % n, n))

RoundSigned(x) == IF x >= 0 THEN RoundToF32(x, 0, 1) ELSE 0 - RoundToF32(0 - x, 0, 1)

F32Add(a, b) == IF a.nan \/ b.nan THEN NaN ELSE F(RoundSigned(a.v + b.v))
F32Sub(a, b) == IF a.nan \/ b.nan THEN NaN ELSE F(RoundSigned(a.v - b.v))
F32Abs(a) == IF a.nan THEN NaN ELSE F(IF a.v >= 0 THEN a.v ELSE 0 - a.v)
\* comparisons with a NaN operand are false
F32Lt(a, b) == ~a.nan /\ ~b.nan /\ a.v < b.v
F32Le(a, b) == ~a.nan /\ ~b.nan /\ a.v <= b.v

(***************************************************************************)
(* kl_anal.rs                                                              *)
(***************************************************************************)
Min(a, b) == IF a <= b THEN a ELSE b

RECURSIVE SumOver(_, _)
SumOver(S, f) ==
    IF S = {} THEN 0
    ELSE LET x == CHOOSE y \in S : TRUE IN f[x] + SumOver(S \ {x}, f)

\* data.iter().skip(offset).step_by(step): the 0-based positions visited
StepBy(d, offset, step) ==
    {i \in 0..(Len(d) - 1) : i >= offset /\ (i - offset) % step = 0}

\* freqs[v] after the scan of the positions P
Freq(d, P, v) == Cardinality({i \in P : d[i + 1] = v})

\* calc_ic.  length * (length - 1) is 0 exactly when the class has one
\* element (analyse_key_length never passes an offset at or beyond
\* data.len(), so length >= 1); every count is then at most 1, the numerator
\* is 0, and 0.0 / 0.0 is NaN.
calc_ic(d, offset, step) ==
    LET P      == StepBy(d, offset, step)
        length == Cardinality(P)
        seen   == {d[i + 1] : i \in P}
        fx     == [v \in seen |-> Freq(d, P, v) * (Freq(d, P, v) - 1)]
        ic     == SumOver(seen, fx)
    IN  IF length * (length - 1) = 0 THEN NaN
        ELSE F32DivInts(ic, length * (length - 1))

RECURSIVE ic_mean(_, _, _)
\* the value of mean after the loop over offset in from..key_length-1
ic_mean(d, kl, from) ==
    IF from = 0 THEN F(0)
    ELSE F32Add(ic_mean(d, kl, from - 1), calc_ic(d, from - 1, kl))

calc_ic_for_key_length(d, kl) == F32DivByInt(ic_mean(d, kl, kl), kl)

\* the literal 0.001 as f32 is 0.001000000047..., between 268435 and 268436
\* units; the compared value is a whole number of units
Epsilon == 268435

\* one iteration of the selection loop: the new best_guess_i
select_step(vals, t, i, best_guess_i) ==
    LET diff      == F32Abs(F32Sub(vals[i + 1], t))
        best_diff == F32Abs(F32Sub(vals[best_guess_i + 1], t))
    IN  IF F32Lt(diff, best_diff)
        THEN IF F32Le(F32Abs(F32Sub(diff, best_diff)), F(Epsilon))
             THEN IF (i + 1) % (best_guess_i + 1) # 0 THEN i ELSE best_guess_i
             ELSE i
        ELSE best_guess_i

RECURSIVE select_loop(_, _, _, _)
select_loop(vals, t, i, best_guess_i) ==
    IF i >= Len(vals) THEN best_guess_i
    ELSE select_loop(vals, t, i + 1, select_step(vals, t, i, best_guess_i))

\* the vector ic_vals after the first loop of analyse_key_length
scores(d, maxlen) ==
    [i \in 1..Min(maxlen, Len(d)) |-> calc_ic_for_key_length(d, i)]

\* mutated return: the 0-based index best_guess_i instead of the length
analyse_key_length_index(d, maxlen, t) == select_loop(scores(d, maxlen), t, 0, 0)

analyse_key_length(d, maxlen, t) == select_loop(scores(d, maxlen), t, 0, 0) + 1

(***************************************************************************)
(* key_guess.rs                                                            *)
(***************************************************************************)
MostCommon(common) == [tag |-> "MostCommon", common |-> common]
Crib(crib, offset) == [tag |-> "Crib", crib |-> crib, offset |-> offset]
CribAndSearch(crib, search) ==
    [tag |-> "CribAndSearch", crib |-> crib, search |-> search]

Ok(keys) == [kind |-> "Ok", keys |-> keys, msg |-> ""]
Err(msg) == [kind |-> "Err", keys |-> <<>>, msg |-> msg]
Panicked == [kind |-> "Panic", keys |-> <<>>, msg |-> ""]

CribShorter == "The crib is shorter than the key length"
OffsetTooFar == "The crib is offset too far into the file"
NoSuitableKeys == "No suitable keys found"

\* a mutated is_valid: a crib as long as the key is rejected too
is_valid_strict(m, d, kl) ==
    IF m.tag = "MostCommon" THEN "Ok"
    ELSE IF kl >= Len(m.crib) THEN CribShorter
    ELSE IF m.tag = "Crib" /\ m.offset + Len(m.crib) > Len(d) THEN OffsetTooFar
    ELSE "Ok"

\* GuessMethod::is_valid: "Ok", or the message of the error
is_valid(m, d, kl) ==
    IF m.tag = "MostCommon" THEN "Ok"
    ELSE IF m.tag = "CribAndSearch" /\ kl > Len(m.crib) THEN CribShorter
    ELSE IF m.tag = "Crib" /\ kl > Len(m.crib) THEN CribShorter
    ELSE IF m.tag = "Crib" /\ m.offset + Len(m.crib) > Len(d) THEN OffsetTooFar
    ELSE "Ok"

\* mutated reduce: x >= cx, the last of the most frequent values wins
reduce_last_max(freqs) ==
    CHOOSE i \in 0..255 :
        /\ \A j \in 0..255 : freqs[j] <= freqs[i]
        /\ \A j \in (i + 1)..255 : freqs[j] < freqs[i]

\* freqs.iter().enumerate().reduce(|(ci, cx), (i, x)| if x > cx {(i, x)} else
\* {(ci, cx)}).unwrap().0: the accumulator is replaced only by a strictly
\* larger count, so the fold ends on the lowest index holding the maximum
reduce_max(freqs) ==
    CHOOSE i \in 0..255 :
        /\ \A j \in 0..255 : freqs[j] <= freqs[i]
        /\ \A j \in 0..(i - 1) : freqs[j] < freqs[i]

\* get_key_at, MostCommon arm: the most frequent byte of the residue class
most_freq(d, key_index, kl) ==
    LET P == StepBy(d, key_index, kl)
        freqs == [v \in 0..255 |-> Freq(d, P, v)]
    IN  reduce_max(freqs)

\* GuessMethod::get_key_at for MostCommon and Crib (get_key calls it for
\* no other variant, and only on inputs is_valid accepted)
get_key_at(m, d, key_index, kl) ==
    IF m.tag = "MostCommon" THEN Xor(most_freq(d, key_index, kl), m.common)
    ELSE Xor(d[m.offset + key_index + 1], m.crib[key_index + 1])

\* slice::rotate_right(k) for k <= len: element j moves to (j + k) % len
rotate_right(s, k) ==
    [i \in 1..Len(s) |-> s[((i - 1 - k + Len(s)) % Len(s)) + 1]]

\* data.iter().skip(offset).take(key_length).enumerate().map(|(i,&x)| x ^ crib[i])
xor_crib(d, crib, offset, kl) ==
    LET avail == IF Len(d) > offset THEN Len(d) - offset ELSE 0
    IN  [i \in 1..Min(kl, avail) |-> Xor(d[offset + i], crib[i])]

\* the scan of data_test from its (0-based) position i with counter si:
\* "success", "fail" (the stream ended) or "panic" (search[si] out of range)
RECURSIVE scan(_, _, _, _)
scan(data_test, search, i, si) ==
    IF i >= Len(data_test) THEN "fail"
    ELSE IF si >= Len(search) THEN "panic"
    ELSE LET si2 == IF data_test[i + 1] = search[si + 1] THEN si + 1 ELSE 0
         IN  IF si2 = Len(search) - 1 THEN "success"
             ELSE scan(data_test, search, i + 1, si2)

\* the body of the offset loop: the key guess and what its scan gave,
\* "success", "fail" or "panic"
try_offset(d, crib, search, offset, kl) ==
    IF kl = 0 THEN [scan |-> "panic", key_guess |-> <<>>]       \* offset % 0
    ELSE
    LET g == xor_crib(d, crib, offset, kl)
        key_guess == IF Len(g) = 0 THEN <<>> ELSE rotate_right(g, offset % kl)
    IN  [key_guess |-> key_guess,
         scan |-> IF offset % kl > Len(g) THEN "panic"          \* rotate_right
                  ELSE IF decrypt_panics(d, key_guess) THEN "panic"
                  ELSE IF Len(d) = 0 THEN "fail"
                  ELSE scan(decrypt(d, key_guess), search, 0, 0)]

\* the loop `for offset in 0..limit` from `offset` on, and what follows it
RECURSIVE search_loop(_, _, _, _, _, _, _)
search_loop(d, crib, search, kl, limit, offset, res) ==
    IF offset >= limit
    THEN IF Len(res) = 0 THEN Err(NoSuitableKeys) ELSE Ok(res)
    ELSE LET t == try_offset(d, crib, search, offset, kl)
         IN  IF t.scan = "panic" THEN Panicked
             ELSE search_loop(d, crib, search, kl, limit, offset + 1,
                      IF t.scan = "success" THEN Append(res, t.key_guess) ELSE res)

\* data.len() - crib.len().  With a crib longer than the data the
\* subtraction overflows: a panic where overflow is checked (checked = TRUE,
\* the dev and test profiles), a wrap to about 2^64 otherwise.  Every offset
\* beyond data.len() behaves as offset data.len() + 1 does or panics before,
\* so a wrapped limit is cut to data.len() + 2.
search_limit(d, crib) ==
    IF Len(crib) <= Len(d) THEN Len(d) - Len(crib) ELSE Len(d) + 2

\* GuessMethod::get_key, after validation
get_key_valid(m, d, kl, checked) ==
    IF m.tag = "CribAndSearch"
    THEN IF checked /\ Len(m.crib) > Len(d) THEN Panicked
         ELSE search_loop(d, m.crib, m.search, kl, search_limit(d, m.crib), 0, <<>>)
    ELSE Ok(<<[i \in 1..kl |-> get_key_at(m, d, i - 1, kl)]>>)

\* GuessMethod::get_key (guess_key only forwards to it)
get_key(m, d, kl, checked) ==
    IF is_valid(m, d, kl) # "Ok" THEN Err(is_valid(m, d, kl))
    ELSE get_key_valid(m, d, kl, checked)

\* the results the builds of the crate can give: they differ only where
\* data.len() - crib.len() overflows
get_key_outcomes(m, d, kl) ==
    IF m.tag = "CribAndSearch" /\ Len(m.crib) > Len(d)
    THEN {get_key(m, d, kl, checked) : checked \in BOOLEAN}
    ELSE {get_key(m, d, kl, TRUE)}

(***************************************************************************)
(* Specification of decrypt: one call, then a second call on its output    *)
(* with the same key.                                                      *)
(***************************************************************************)
InitDecrypt ==
    /\ pc = "start"
    /\ data \in DecryptInputs
    /\ key = None
    /\ output = None
    /\ max_length = None
    /\ target_ic = None
    /\ ic_vals = None
    /\ kl_ret = None
    /\ method = None
    /\ key_length = None
    /\ result = None

Decrypt ==
    /\ pc = "start"
    /\ \E k \in DecryptKeys :
        /\ key' = k
        /\ output' = collect_decrypt(data, k)
    /\ pc' = "decrypt"
    /\ UNCHANGED <<data, max_length, target_ic, ic_vals, kl_ret,
                   method, key_length, result>>

DecryptAgain ==
    /\ pc = "decrypt"
    /\ ~output.panic
    /\ output' = collect_decrypt(output.bytes, key)
    /\ pc' = "decrypt_again"
    /\ UNCHANGED <<data, key, max_length, target_ic, ic_vals, kl_ret,
                   method, key_length, result>>

NextDecrypt == Decrypt \/ DecryptAgain

SpecDecrypt == InitDecrypt /\ [][NextDecrypt]_vars

(***************************************************************************)
(* Specification of analyse_key_length: one call on a generated            *)
(* ciphertext.  The targets are the default of the command line, 0.067     *)
(* (17985176 units), and three a user may pass: 0.1666 (44721348 units),   *)
(* 0.0 and 1.0.                                                            *)
(***************************************************************************)
KLBytes == {97, 98}
KLInputs == SeqsUpTo(KLBytes, MaxKLData)
DefaultTargetIC == 17985176
TargetICs == {F(DefaultTargetIC), F(44721348), F(0), F(F32Unit)}

InitKL ==
    /\ pc = "start"
    /\ data \in KLInputs
    /\ key = None
    /\ output = None
    /\ max_length = None
    /\ target_ic = None
    /\ ic_vals = None
    /\ kl_ret = None
    /\ method = None
    /\ key_length = None
    /\ result = None

AnalyseKeyLength ==
    /\ pc = "start"
    /\ \E ml \in 0..MaxMaxLength, t \in TargetICs :
        /\ max_length' = ml
        /\ target_ic' = t
        /\ ic_vals' = scores(data, ml)
        /\ kl_ret' = analyse_key_length(data, ml, t)
    /\ pc' = "analyse_key_length"
    /\ UNCHANGED <<data, key, output, method, key_length, result>>

NextKL == AnalyseKeyLength

SpecKL == InitKL /\ [][NextKL]_vars

(***************************************************************************)
(* Specification of guess_key: one call on a generated ciphertext, with    *)
(* each of the three methods.                                              *)
(***************************************************************************)
GuessBytes == {97, 98}
CommonBytes == {32, 101}
GuessInputs == SeqsUpTo(GuessBytes, MaxData)
Cribs == SeqsUpTo(GuessBytes, MaxCrib)
Searches == SeqsUpTo(GuessBytes, MaxSearch)

InitGuess ==
    /\ pc = "start"
    /\ data \in GuessInputs
    /\ key = None
    /\ output = None
    /\ max_length = None
    /\ target_ic = None
    /\ ic_vals = None
    /\ kl_ret = None
    /\ method = None
    /\ key_length = None
    /\ result = None

GuessKey(m, kl) ==
    /\ pc = "start"
    /\ method' = m
    /\ key_length' = kl
    /\ result' \in get_key_outcomes(m, data, kl)
    /\ pc' = "guess_key"
    /\ UNCHANGED <<data, key, output, max_length, target_ic, ic_vals, kl_ret>>

GuessMostCommon ==
    \E c \in CommonBytes, kl \in 0..MaxKeyLength : GuessKey(MostCommon(c), kl)

GuessCrib ==
    \E crib \in Cribs, offset \in 0..MaxData, kl \in 0..MaxKeyLength :
        GuessKey(Crib(crib, offset), kl)

GuessCribAndSearch ==
    \E crib \in Cribs, search \in Searches, kl \in 0..MaxKeyLength :
        GuessKey(CribAndSearch(crib, search), kl)

NextGuess == GuessMostCommon \/ GuessCrib \/ GuessCribAndSearch

SpecGuess == InitGuess /\ [][NextGuess]_vars

(***************************************************************************)
(* Properties of analyse_key_length.                                       *)
(***************************************************************************)
\* the absolute difference of the score of trial length l from the target
ScoreDiff(l) == F32Abs(F32Sub(ic_vals[l], target_ic))

\* C1 as stated: for every data (the empty one included) and every
\* max_length >= 0 the returned length r satisfies
\* 1 <= r <= min(max_length, data.length).
C1_AsStated ==
    pc = "analyse_key_length" =>
        (1 <= kl_ret /\ kl_ret <= Min(max_length, Len(data)))

\* C1: when min(max_length, data.length) >= 1 the returned length r satisfies
\* 1 <= r <= min(max_length, data.length); when that minimum is 0 (empty data
\* or max_length = 0) the call returns 1.
C1_LengthBound ==
    pc = "analyse_key_length" =>
        IF Min(max_length, Len(data)) >= 1
        THEN 1 <= kl_ret /\ kl_ret <= Min(max_length, Len(data))
        ELSE kl_ret = 1

\* the call returned the largest trial length it was allowed to try
C1_Witness ==
    /\ pc = "analyse_key_length"
    /\ kl_ret >= 2
    /\ kl_ret = Min(max_length, Len(data))

\* C2: the returned length has the smallest absolute difference from target_ic
\* of all trial lengths, except that a longer length with a smaller
\* difference may have been passed over for the returned one when it is an
\* exact multiple of it and the two scores are within 0.001 of each other.
C2_ClosestScore ==
    (pc = "analyse_key_length" /\ Len(ic_vals) >= 1) =>
        \A l \in 1..Len(ic_vals) :
            F32Lt(ScoreDiff(l), ScoreDiff(kl_ret)) =>
                /\ l > kl_ret
                /\ l % kl_ret = 0
                /\ F32Le(F32Abs(F32Sub(ic_vals[l], ic_vals[kl_ret])), F(Epsilon))

\* C3: a residue class of at most one element contributes exactly 0 to the
\* score of its trial length, and no score of a trial length up to
\* data.length is an undefined value (NaN).
C3_NoUndefinedScore ==
    pc = "analyse_key_length" =>
        \A l \in 1..Len(ic_vals) :
            /\ ~ic_vals[l].nan
            /\ \A offset \in 0..(l - 1) :
                  Cardinality(StepBy(data, offset, l)) <= 1 =>
                      calc_ic(data, offset, l) = F(0)

(***************************************************************************)
(* Properties of guess_key.                                                *)
(***************************************************************************)
MinOf(S) == CHOOSE x \in S : \A y \in S : x <= y

\* the positions of residue class i whose byte has the highest count
TopPositions(d, i, L) ==
    LET P == StepBy(d, i, L)
    IN  {p \in P : \A q \in P : Freq(d, P, d[q + 1]) <= Freq(d, P, d[p + 1])}

\* of the most frequent bytes of class i, the one that occurs first
FirstSeenTop(d, i, L) == d[MinOf(TopPositions(d, i, L)) + 1]

\* of the most frequent bytes of class i, the one of lowest value; 0 for an
\* empty class
LowestTop(d, i, L) ==
    IF StepBy(d, i, L) = {} THEN 0
    ELSE MinOf({d[p + 1] : p \in TopPositions(d, i, L)})

\* C4 as stated: MostCommon with key length L >= 1 returns exactly one
\* candidate of length L whose byte i is commonByte XOR the most frequent byte
\* of residue class i, the byte seen first winning a tie.
C4_AsStated ==
    (pc = "guess_key" /\ method.tag = "MostCommon" /\ key_length >= 1) =>
        /\ result.kind = "Ok"
        /\ Len(result.keys) = 1
        /\ Len(result.keys[1]) = key_length
        /\ \A i \in 0..(key_length - 1) :
              StepBy(data, i, key_length) # {} =>
                  result.keys[1][i + 1] =
                      Xor(method.common, FirstSeenTop(data, i, key_length))

\* C4: MostCommon with key length L >= 1 returns exactly one candidate of
\* length L whose byte i is commonByte XOR the most frequent byte of residue
\* class i; of several bytes sharing the highest count the one of lowest
\* value wins, and an empty class (i >= data.length) gives commonByte XOR 0.
C4_MostCommonLowestWins ==
    (pc = "guess_key" /\ method.tag = "MostCommon" /\ key_length >= 1) =>
        /\ result.kind = "Ok"
        /\ Len(result.keys) = 1
        /\ Len(result.keys[1]) = key_length
        /\ \A i \in 0..(key_length - 1) :
              result.keys[1][i + 1] =
                  Xor(method.common, LowestTop(data, i, key_length))

\* a residue class held a tie whose first-seen byte is not the lowest, and
\* the key byte was made from the lowest
C4_Witness ==
    /\ pc = "guess_key"
    /\ method.tag = "MostCommon"
    /\ key_length >= 1
    /\ result.kind = "Ok"
    /\ \E i \in 0..(key_length - 1) :
          /\ StepBy(data, i, key_length) # {}
          /\ FirstSeenTop(data, i, key_length) # LowestTop(data, i, key_length)
          /\ result.keys[1][i + 1] =
                 Xor(method.common, LowestTop(data, i, key_length))

CribBased == method.tag \in {"Crib", "CribAndSearch"}

\* C5 as stated: a crib-based guess with crib.length = keyLength (a key
\* length of at least 1, a crib no longer than the data) fails validation
\* with an error and returns no candidate key.
C5_AsStated ==
    (/\ pc = "guess_key"
     /\ CribBased
     /\ key_length >= 1
     /\ Len(method.crib) = key_length
     /\ Len(method.crib) <= Len(data)) =>
        (result.kind = "Err" /\ result.msg \in {CribShorter, OffsetTooFar})

\* C5: a crib-based guess fails validation with the error "The crib is
\* shorter than the key length", returning no candidate key, exactly when
\* crib.length < keyLength; a crib of length keyLength passes that check.
C5_CribShorterOnly ==
    (pc = "guess_key" /\ CribBased) =>
        (result = Err(CribShorter) <=> Len(method.crib) < key_length)

\* a Crib guess whose crib is exactly as long as the key returned a key
C5_Witness ==
    /\ pc = "guess_key"
    /\ method.tag = "Crib"
    /\ key_length >= 1
    /\ Len(method.crib) = key_length
    /\ result.kind = "Ok"
    /\ Len(result.keys[1]) = key_length

\* the offsets at which the crib fits and that the search has to test
FittingOffsets(upto) ==
    IF Len(method.crib) > Len(data) THEN {}
    ELSE 0..(Len(data) - Len(method.crib) - (IF upto THEN 0 ELSE 1))

Tried(p) == try_offset(data, method.crib, method.search, p, key_length)

\* C6: CribAndSearch on input that passes validation (here with data of at
\* least 1 byte, a key length of at least 1 and a search target of at least
\* 2 bytes) never returns a
\* successful empty list: when no tested offset gives a key whose decryption
\* matches (also when there is no offset to test), the result is the error
\* "No suitable keys found", and an Ok result holds at least one key.
C6_NoEmptySuccess ==
    (/\ pc = "guess_key"
     /\ method.tag = "CribAndSearch"
     /\ Len(data) >= 1
     /\ key_length >= 1
     /\ Len(method.search) >= 2
     /\ key_length <= Len(method.crib)) =>
        /\ result.kind = "Ok" => Len(result.keys) >= 1
        /\ (\A p \in FittingOffsets(FALSE) : Tried(p).scan # "success") =>
               result = Err(NoSuitableKeys)

\* the smallest tested offset at which key k was found
FirstFound(k) ==
    MinOf({p \in FittingOffsets(FALSE) :
              Tried(p).scan = "success" /\ Tried(p).key_guess = k})

\* C7: the list CribAndSearch returns holds no two equal keys, and its keys
\* are ordered by the smallest offset at which each was found.
C7_DistinctInDiscoveryOrder ==
    (/\ pc = "guess_key"
     /\ method.tag = "CribAndSearch"
     /\ Len(method.search) >= 2
     /\ result.kind = "Ok") =>
        \A i, j \in 1..Len(result.keys) :
            i < j =>
                /\ result.keys[i] # result.keys[j]
                /\ FirstFound(result.keys[i]) < FirstFound(result.keys[j])

\* s occurs in t at 0-based position p
OccursAt(s, t, p) ==
    /\ p + Len(s) <= Len(t)
    /\ \A j \in 1..Len(s) : t[p + j] = s[j]

OccursIn(s, t) == \E p \in 0..Len(t) : OccursAt(s, t, p)

\* the key bytes under which a ciphertext and a plaintext over GuessBytes
\* correspond
KeyBytes == {Xor(a, b) : a, b \in GuessBytes}

\* C10: if data = encrypt(P, K) with K of length L <= crib.length, the crib
\* occurs in P at an offset p with p + crib.length <= data.length (the last
\* such offset included) and the search target occurs in P, then the key
\* guess derived at p equals K and K is in the returned list.
C10_CompleteOverFittingOffsets ==
    (/\ pc = "guess_key"
     /\ method.tag = "CribAndSearch"
     /\ key_length >= 1
     /\ key_length <= Len(method.crib)
     /\ Len(method.search) >= 2) =>
        \A K \in SeqsOfLen(KeyBytes, key_length) :
            \A p \in FittingOffsets(TRUE) :
                (/\ OccursAt(method.crib, decrypt(data, K), p)
                 /\ OccursIn(method.search, decrypt(data, K))) =>
                    /\ Tried(p).key_guess = K
                    /\ result.kind = "Ok"
                    /\ \E i \in 1..Len(result.keys) : result.keys[i] = K

\* the first m-1 bytes of the search target
SearchPrefix == SubSeq(method.search, 1, Len(method.search) - 1)

\* key k is one of the keys of the returned list
Recorded(k) ==
    /\ result.kind = "Ok"
    /\ \E i \in 1..Len(result.keys) : result.keys[i] = k

\* C11: for a search target of m >= 2 bytes (key length >= 1, crib no longer
\* than the data) the key guess of a tested offset is recorded if and only if
\* the decryption of the whole ciphertext under it contains the first m-1
\* bytes of the search target as a contiguous run: the counter misses no run.
C11_RecordedIffContainsPrefix ==
    (/\ pc = "guess_key"
     /\ method.tag = "CribAndSearch"
     /\ Len(method.search) >= 2
     /\ key_length >= 1
     /\ key_length <= Len(method.crib)
     /\ Len(method.crib) <= Len(data)) =>
        \A p \in FittingOffsets(FALSE) :
            Recorded(Tried(p).key_guess) <=>
                OccursIn(SearchPrefix, decrypt(data, Tried(p).key_guess))

\* C12: every input that is_valid accepts (here with data of at least 1
\* byte and a key length of at least 1) is processed by get_key to an Ok or
\* Err result with no out-of-range step: data.len() - crib.len() does not
\* underflow and no index, remainder or subtraction of the search panics.
C12_AcceptedInputIsInRange ==
    (/\ pc = "guess_key"
     /\ Len(data) >= 1
     /\ key_length >= 1
     /\ is_valid(method, data, key_length) = "Ok") =>
        /\ result.kind \in {"Ok", "Err"}
        /\ method.tag = "CribAndSearch" => Len(method.crib) <= Len(data)

(***************************************************************************)
(* Properties of decrypt.                                                  *)
(***************************************************************************)
Bit(x, b) == (x \div (2 ^ b)) % 2

\* C8: decrypt(data, key) with a non-empty key has the length of data, its
\* i-th byte is data[i] XOR key[i mod key.length] (stated bit by bit: each bit
\* of the output is the sum modulo 2 of the bits of the data byte and of the
\* cyclically selected key byte), and the fixture of test_decrypt_1 decrypts
\* under "beef" to "Hello this is an xanal test :)".
C8_DecryptCyclicXor ==
    (pc = "decrypt" /\ Len(key) > 0) =>
        /\ ~output.panic
        /\ Len(output.bytes) = Len(data)
        /\ \A i \in 0..(Len(data) - 1) : \A b \in 0..7 :
              Bit(output.bytes[i + 1], b) =
                  (Bit(data[i + 1], b) + Bit(key[(i % Len(key)) + 1], b)) % 2
        /\ (data = FixtureData /\ key = FixtureKey) => output.bytes = FixtureText

\* the fixture has been decrypted with "beef", the key repeating seven times
C8_Witness ==
    /\ pc = "decrypt"
    /\ data = FixtureData
    /\ key = FixtureKey
    /\ output = Bytes(FixtureText)

\* C9: for non-empty data and a non-empty key, decrypting the decryption with
\* the same key gives the data back.
C9_DecryptInvolution ==
    (pc = "decrypt_again" /\ Len(data) > 0 /\ Len(key) > 0) =>
        (~output.panic /\ output.bytes = data)

\* a three-byte ciphertext went through decrypt twice under a two-byte key
\* whose bytes differ, and the first pass changed it
C9_Witness ==
    /\ pc = "decrypt_again"
    /\ Len(data) = 3
    /\ Len(key) = 2
    /\ key[1] # key[2]
    /\ output = Bytes(data)
    /\ decrypt(data, key) # data

====
